---- MODULE Spec2Model ----
(***************************************************************************)
(* Seat-booking core of the railway reservation backend:                   *)
(*   src/src/routes/bookings.js  POST / (book), GET /:bookingId,           *)
(*                               GET /user/bookings,                       *)
(*                               PATCH /:bookingId/cancel, schema          *)
(*   src/src/routes/trains.js    GET /search, GET /, GET /number/:n,       *)
(*                               PATCH /:trainId/seats, /:trainId/fare     *)
(*                                                                         *)
(* The store is MySQL/InnoDB at its default isolation level (REPEATABLE    *)
(* READ): a plain SELECT inside a transaction reads the committed state as *)
(* of the transaction's first plain SELECT, SELECT ... FOR UPDATE and      *)
(* UPDATE take an exclusive row lock held until commit or rollback, and an *)
(* UPDATE acts on the latest committed version of the row.  A              *)
(* transaction's writes become visible to the others at its commit.        *)
(*                                                                         *)
(* Time is counted in whole minutes, fares in whole currency units.        *)
(***************************************************************************)
EXTENDS Integers, Sequences, FiniteSets, TLC

\* ------------------------------------------------------------------ bounds
\* Most rows the bookings table holds.
MaxBookings == 2
\* Most seats one booking row holds.
MaxSeatsBooked == 2

\* The pool's connections, each serving one request at a time.
Procs == {1, 2}
\* Authenticated callers (req.user.id).
Users == {"u1", "u2"}
\* Train ids a request may name; only those of Init's trains table exist.
TrainIdInputs == {1, 2}
\* (from_station_id, to_station_id) pairs a request may name.
SegmentInputs == {<<1, 2>>}
\* Travel dates, as day numbers; a DATE is read back as that day's midnight.
DateInputs == {2}
\* Values the wall clock takes, in minutes.
ClockValues == {1439, 1440, 1441}
\* req.body.seats_to_cancel; 0 stands for an absent value.
SeatsToCancelInputs == {0, 1, 2, 3}
\* Fares an admin may set.
FareInputs == {100, 150}
\* Seat totals an admin may set.
TotalSeatsInputs == {1, 2}

VARIABLES
    trains,     \* table trains: id -> [total_seats, fare]
    bookings,   \* table bookings, committed rows; the row's id is its index
    req,        \* per connection: the request being served and its locals
    now,        \* the wall clock, what new Date() returns
    list,       \* the GET /user/bookings request whose read repair is under way
    resp        \* the response the last step sent, NoResp when it sent none

vars == <<trains, bookings, req, now, list, resp>>

\* ------------------------------------------------------------------ schema
\* booking_status ENUM('confirmed', 'cancelled')
BookingStatus == {"confirmed", "cancelled"}

\* A row of table bookings.
BookingRow(u, t, f, o, d, seats, total, status) ==
    [user_id |-> u, train_id |-> t, from_station_id |-> f, to_station_id |-> o,
     booking_date |-> d, seats_booked |-> seats, total_fare |-> total,
     booking_status |-> status]

BookingIds == 1..Len(bookings)

\* ------------------------------------------------------------- request state
NoResp ==
    [op |-> "none", user |-> "none", status |-> 0, message |-> "",
     booking_id |-> 0, seats |-> 0, amount |-> 0, rows |-> <<>>]

\* res.status(status).json({message, booking_id, seats, amount}), answering
\* request r.
Resp(r, status, message, id, seats, amount) ==
    [op |-> r.op, user |-> r.user, status |-> status, message |-> message,
     booking_id |-> id, seats |-> seats, amount |-> amount, rows |-> <<>>]

\* A released connection: no request, no locals.
IdleReq ==
    [op |-> "idle", pc |-> "idle", user |-> "none",
     train_id |-> 0, from_station_id |-> 0, to_station_id |-> 0, booking_date |-> 0,
     bookingId |-> 0, seatsToCancel |-> 0,
     total_seats |-> 0, fare |-> 0, seats_booked |-> 0, availableSeats |-> 0]

\* pool.getConnection(): the pool hands out its first free connection.
GetConnection(p) ==
    /\ req[p].op = "idle"
    /\ \A q \in Procs : req[q].op = "idle" => p <= q

\* ------------------------------------------------------------------- locks
\* No lock on the train row.
TrainLockHoldersNone(t) == {}

\* The connections holding the exclusive lock on train row t: book took it with
\* SELECT ... FOR UPDATE and keeps it until its commit or rollback.
TrainLockHolders(t) ==
    {p \in Procs : /\ req[p].op = "book"
                   /\ req[p].pc \in {"read", "write"}
                   /\ req[p].train_id = t}

\* ------------------------------------------------------------------- book
\* WHERE train_id = ? AND booking_date = ? AND booking_status = 'confirmed'
\*   AND from_station_id = ? AND to_station_id = ?
ConfirmedForKey(t, d, f, o) ==
    {i \in BookingIds : /\ bookings[i].train_id = t
                        /\ bookings[i].booking_date = d
                        /\ bookings[i].booking_status = "confirmed"
                        /\ bookings[i].from_station_id = f
                        /\ bookings[i].to_station_id = o}

\* The lookup without its status filter: the caller's bookings for the key,
\* cancelled ones included.
UserBookingsAnyStatus(u, t, d, f, o) ==
    {i \in BookingIds :
        /\ bookings[i].user_id = u /\ bookings[i].train_id = t
        /\ bookings[i].booking_date = d
        /\ bookings[i].from_station_id = f /\ bookings[i].to_station_id = o}

\* The userBookings query: the caller's confirmed bookings for the key.
UserBookings(u, t, d, f, o) ==
    {i \in ConfirmedForKey(t, d, f, o) : bookings[i].user_id = u}

\* SELECT COUNT(*) as booked_seats: the number of confirmed booking rows.
BookedSeats(t, d, f, o) == Cardinality(ConfirmedForKey(t, d, f, o))

\* The availability one too high.
AvailableSeatsOffByOne(total_seats, t, d, f, o) ==
    total_seats - BookedSeats(t, d, f, o) + 1

\* availableSeats = train[0].total_seats - totalBookings[0].booked_seats
AvailableSeats(total_seats, t, d, f, o) == total_seats - BookedSeats(t, d, f, o)

\* newSeatsBooked = userSeatsBooked + 1
NewSeatsBooked(userSeatsBooked) == userSeatsBooked + 1

\* total_fare = train[0].fare * newSeatsBooked
TotalFare(fare, newSeatsBooked) == fare * newSeatsBooked

\* Book requests in flight that may still insert a row.
PendingInserts ==
    {p \in Procs : /\ req[p].op = "book"
                   /\ \/ req[p].pc \in {"lock", "read"}
                      \/ req[p].pc = "write" /\ req[p].bookingId = 0}

\* Book requests in flight of user u for the key.
PendingBooks(u, t, d, f, o) ==
    {p \in Procs : /\ req[p].op = "book"
                   /\ req[p].user = u /\ req[p].train_id = t
                   /\ req[p].booking_date = d
                   /\ req[p].from_station_id = f /\ req[p].to_station_id = o}

\* The most seats a booking row of user u for the key can come to hold through
\* the requests in flight: the seats a row holds or a request is about to
\* write, plus one for each request that has not read yet.
SeatsHeld(u, t, d, f, o) ==
    LET pending == PendingBooks(u, t, d, f, o)
        held == {bookings[i].seats_booked : i \in UserBookings(u, t, d, f, o)}
                  \cup {req[p].seats_booked + 1 : p \in {q \in pending : req[q].pc = "write"}}
                  \cup {0}
    IN  (CHOOSE m \in held : \A n \in held : n <= m)
          + Cardinality({q \in pending : req[q].pc # "write"})

\* The request arrives: a connection is taken and a transaction begun.  It is
\* admitted to the model only while the table and the counters stay in bounds
\* whatever the requests in flight do.
BookStart(p, u, t, f, o, d) ==
    /\ GetConnection(p)
    /\ Len(bookings) + Cardinality(PendingInserts) < MaxBookings
    /\ SeatsHeld(u, t, d, f, o) < MaxSeatsBooked
    /\ req' = [req EXCEPT ![p] =
                 [IdleReq EXCEPT !.op = "book", !.pc = "lock", !.user = u,
                                 !.train_id = t, !.from_station_id = f,
                                 !.to_station_id = o, !.booking_date = d]]
    /\ resp' = NoResp
    /\ UNCHANGED <<trains, bookings, now, list>>

\* The response is sent and, in the finally block, the connection released.
Answer(p, response) ==
    /\ req' = [req EXCEPT ![p] = IdleReq]
    /\ resp' = response

\* SELECT * FROM trains WHERE id = ? FOR UPDATE: waits for the row lock; an
\* unknown train rolls back with 404.
BookLockTrain(p) ==
    /\ req[p].op = "book" /\ req[p].pc = "lock"
    /\ IF req[p].train_id \notin DOMAIN trains
       THEN Answer(p, Resp(req[p], 404, "Train not found", 0, 0, 0))
       ELSE /\ TrainLockHolders(req[p].train_id) = {}
            /\ req' = [req EXCEPT ![p].pc = "read",
                                  ![p].total_seats = trains[req[p].train_id].total_seats,
                                  ![p].fare = trains[req[p].train_id].fare]
            /\ resp' = NoResp
    /\ UNCHANGED <<trains, bookings, now, list>>

\* The two SELECTs on bookings (one snapshot) and the availability guard.
BookRead(p) ==
    /\ req[p].op = "book" /\ req[p].pc = "read"
    /\ LET r == req[p]
           userBookings == UserBookings(r.user, r.train_id, r.booking_date,
                                        r.from_station_id, r.to_station_id)
           availableSeats == AvailableSeats(r.total_seats, r.train_id, r.booking_date,
                                            r.from_station_id, r.to_station_id)
       IN  IF availableSeats <= 0
           THEN Answer(p, Resp(r, 400, "No seats available", 0, 0, 0))
           ELSE /\ resp' = NoResp
                /\ IF userBookings = {}
                   THEN req' = [req EXCEPT ![p].pc = "write",
                                           ![p].availableSeats = availableSeats,
                                           ![p].bookingId = 0,
                                           ![p].seats_booked = 0]
                   ELSE \E b \in userBookings :
                          req' = [req EXCEPT ![p].pc = "write",
                                             ![p].availableSeats = availableSeats,
                                             ![p].bookingId = b,
                                             ![p].seats_booked = bookings[b].seats_booked]
    /\ UNCHANGED <<trains, bookings, now, list>>

\* UPDATE bookings SET seats_booked = ?, total_fare = ? WHERE id = ?
BookUpdateRow(row, newSeatsBooked, total_fare) ==
    [row EXCEPT !.seats_booked = newSeatsBooked, !.total_fare = total_fare]

\* The bookings table as the transaction of book request r writes it: the
\* row it read updated, or a new row inserted.
BookWritten(r) ==
    LET newSeatsBooked == NewSeatsBooked(r.seats_booked)
        total_fare == TotalFare(r.fare, newSeatsBooked)
    IN  IF r.bookingId # 0
        THEN [bookings EXCEPT ![r.bookingId] =
                 BookUpdateRow(@, newSeatsBooked, total_fare)]
        ELSE Append(bookings,
                    BookingRow(r.user, r.train_id, r.from_station_id,
                               r.to_station_id, r.booking_date,
                               newSeatsBooked, total_fare, "confirmed"))

\* The UPDATE or INSERT and connection.commit(): the write becomes visible, the
\* train row's lock is released, and the 201 response is sent.  (The UPDATE
\* waits for the row's lock, which a cancel holds from its UPDATE to its
\* commit; nothing reads the row in between, so the two are one step.)
BookWrite(p) ==
    /\ req[p].op = "book" /\ req[p].pc = "write"
    /\ LET r == req[p]
           newSeatsBooked == NewSeatsBooked(r.seats_booked)
           total_fare == TotalFare(r.fare, newSeatsBooked)
           id == IF r.bookingId # 0 THEN r.bookingId ELSE Len(bookings) + 1
       IN  /\ bookings' = BookWritten(r)
           /\ Answer(p, Resp(r, 201, "Booking successful", id, newSeatsBooked, total_fare))
    /\ UNCHANGED <<trains, now, list>>

\* ------------------------------------------------------------------ cancel
\* const seatsToCancel = req.body.seats_to_cancel || 1
SeatsToCancel(seats_to_cancel) == IF seats_to_cancel = 0 THEN 1 ELSE seats_to_cancel

\* new Date(booking.booking_date): midnight of the travel day, in minutes.
BookingDate(booking_date) == booking_date * 1440

\* The window check with <= for <.
TooLateToCancelInclusive(booking_date, t) ==
    BookingDate(booking_date) - t <= 24 * 60

\* hoursUntilBooking < 24, with hoursUntilBooking = (bookingDate - now) / 1 hour
TooLateToCancel(booking_date, t) == BookingDate(booking_date) - t < 24 * 60

\* The lookup without its user filter.
CancelLookupAnyUser(bookingId, userId) ==
    {i \in BookingIds :
        i = bookingId /\ bookings[i].booking_status = "confirmed"}

\* WHERE b.id = ? AND b.user_id = ? AND b.booking_status = 'confirmed'
CancelLookup(bookingId, userId) ==
    {i \in BookingIds : /\ i = bookingId
                        /\ bookings[i].user_id = userId
                        /\ bookings[i].booking_status = "confirmed"}

\* The over-cancel check off by one.
OverCancelOffByOne(seatsToCancel, seats_booked) ==
    seatsToCancel > seats_booked + 1

\* seatsToCancel > booking.seats_booked
OverCancel(seatsToCancel, seats_booked) == seatsToCancel > seats_booked

\* The request arrives, the booking is read and the three guards are evaluated.
CancelRead(p, u, bookingId, seats_to_cancel) ==
    /\ GetConnection(p)
    /\ LET seatsToCancel == SeatsToCancel(seats_to_cancel)
           found == CancelLookup(bookingId, u)
           r == [IdleReq EXCEPT !.op = "cancel", !.pc = "c_write", !.user = u,
                                !.bookingId = bookingId,
                                !.seatsToCancel = seatsToCancel]
       IN  IF found = {}
           THEN Answer(p, Resp(r, 404, "Booking not found or already cancelled", 0, 0, 0))
           ELSE LET booking == bookings[bookingId]
                    fare == trains[booking.train_id].fare
                IN  IF TooLateToCancel(booking.booking_date, now)
                    THEN Answer(p, Resp(r, 400, "Bookings can only be cancelled at least 24 hours before booking date",
                                        0, 0, 0))
                    ELSE IF OverCancel(seatsToCancel, booking.seats_booked)
                    THEN Answer(p, Resp(r, 400, "Cannot cancel more seats than booked",
                                        0, booking.seats_booked, 0))
                    ELSE /\ req' = [req EXCEPT ![p] =
                                      [r EXCEPT !.seats_booked = booking.seats_booked,
                                                !.fare = fare]]
                         /\ resp' = NoResp
    /\ UNCHANGED <<trains, bookings, now, list>>

\* remainingSeats = booking.seats_booked - seatsToCancel
RemainingSeats(seats_booked, seatsToCancel) == seats_booked - seatsToCancel

\* The refund of one seat, whatever the count.
RefundAmountOneSeat(seatsToCancel, fare) == fare

\* refundAmount = seatsToCancel * booking.fare
RefundAmount(seatsToCancel, fare) == seatsToCancel * fare

\* The cancel's write with a full branch that also clears the row's seats and
\* fare.
CancelUpdateRowClearsRow(row, remainingSeats, fare) ==
    IF remainingSeats = 0
    THEN [row EXCEPT !.booking_status = "cancelled", !.seats_booked = 0,
                     !.total_fare = 0]
    ELSE [row EXCEPT !.seats_booked = remainingSeats,
                     !.total_fare = remainingSeats * fare]

\* The cancel's write without a full branch: the remaining seats, 0 included,
\* are written and the status is left alone.
CancelUpdateRowWritesZero(row, remainingSeats, fare) ==
    [row EXCEPT !.seats_booked = remainingSeats,
                !.total_fare = remainingSeats * fare]

\* The cancel's write with a partial branch that leaves total_fare alone.
CancelUpdateRowStaleFare(row, remainingSeats, fare) ==
    IF remainingSeats = 0
    THEN [row EXCEPT !.booking_status = "cancelled"]
    ELSE [row EXCEPT !.seats_booked = remainingSeats]

\* The UPDATE of the cancel: status alone when no seat remains, else the
\* remaining seats and their fare.
CancelUpdateRow(row, remainingSeats, fare) ==
    IF remainingSeats = 0
    THEN [row EXCEPT !.booking_status = "cancelled"]
    ELSE [row EXCEPT !.seats_booked = remainingSeats,
                     !.total_fare = remainingSeats * fare]

\* The bookings table as the transaction of cancel request r writes it.
CancelWritten(r) ==
    [bookings EXCEPT ![r.bookingId] =
        CancelUpdateRow(@, RemainingSeats(r.seats_booked, r.seatsToCancel), r.fare)]

\* The UPDATE, connection.commit() and the 200 response.
CancelWrite(p) ==
    /\ req[p].op = "cancel" /\ req[p].pc = "c_write"
    /\ LET r == req[p]
           remainingSeats == RemainingSeats(r.seats_booked, r.seatsToCancel)
       IN  /\ bookings' = CancelWritten(r)
           /\ Answer(p, Resp(r, 200,
                             IF r.seatsToCancel = r.seats_booked
                             THEN "Booking cancelled successfully"
                             ELSE "seat(s) cancelled successfully",
                             r.bookingId, remainingSeats,
                             RefundAmount(r.seatsToCancel, r.fare)))
    /\ UNCHANGED <<trains, now, list>>

\* ------------------------------------------------- seat-selection variant
\* The seats of train t: add train inserts one row of table seats for each i
\* in 1..total_seats (seat_number A<i>).
Seats(t) == 1..trains[t].total_seats

\* A booking of the seat-selection variant: the booking row together with its
\* seat-booking rows, one per selected seat, kept in the row's seats field.
SeatBookingRow(u, t, d, selection, fare) ==
    [seats |-> selection]
      @@ BookingRow(u, t, 1, 2, d, Cardinality(selection),
                    fare * Cardinality(selection), "confirmed")

\* The seats of train t that have a confirmed seat-booking row for date d.
SeatsTaken(t, d) ==
    UNION {bookings[i].seats :
             i \in {j \in BookingIds : /\ bookings[j].train_id = t
                                       /\ bookings[j].booking_date = d
                                       /\ bookings[j].booking_status = "confirmed"}}

\* No serialization of the seat admissions.
SeatLockHoldersNone(t, d) == {}

\* The seat admissions in flight for train t and date d: a unit of work
\* serializes with the others of its train and date from its read to its
\* commit.
SeatLockHolders(t, d) ==
    {p \in Procs : /\ req[p].op = "seats" /\ req[p].pc = "s_write"
                   /\ req[p].train_id = t /\ req[p].booking_date = d}

\* Seat admissions in flight, each about to insert a booking.
PendingSeatInserts == {p \in Procs : req[p].op = "seats"}

\* The selection as the rejection lists it, in seat order.
SeatList(S) ==
    CHOOSE s \in [1..Cardinality(S) -> S] :
        \A i, j \in 1..Cardinality(S) : i < j => s[i] < s[j]

\* Per-seat admission, read and guard: the unit of work starts once no other
\* admission for the train and date is under way, and is rejected, listing
\* the requested seats that are taken, unless none of them is.  A request
\* that passes is admitted to the model only while the table stays in bounds.
SeatBookRead(p, u, t, d, selection) ==
    /\ GetConnection(p)
    /\ SeatLockHolders(t, d) = {}
    /\ LET taken == selection \cap SeatsTaken(t, d)
           r == [selection |-> selection]
                  @@ [IdleReq EXCEPT !.op = "seats", !.pc = "s_write", !.user = u,
                                     !.train_id = t, !.booking_date = d,
                                     !.fare = trains[t].fare]
       IN  IF taken # {}
           THEN /\ req' = [req EXCEPT ![p] = IdleReq]
                /\ resp' = [Resp(r, 400, "Seats already booked", 0, 0, 0)
                               EXCEPT !.rows = SeatList(taken)]
           ELSE /\ Len(bookings) + Cardinality(PendingSeatInserts) < MaxBookings
                /\ req' = [req EXCEPT ![p] = r]
                /\ resp' = NoResp
    /\ UNCHANGED <<trains, bookings, now, list>>

\* Per-seat admission, write: the booking row and its seat-booking rows are
\* inserted and committed together.
SeatBookWrite(p) ==
    /\ req[p].op = "seats" /\ req[p].pc = "s_write"
    /\ LET r == req[p]
       IN  /\ bookings' = Append(bookings,
                                 SeatBookingRow(r.user, r.train_id, r.booking_date,
                                                r.selection, r.fare))
           /\ Answer(p, Resp(r, 201, "Booking successful", Len(bookings) + 1,
                             Cardinality(r.selection),
                             r.fare * Cardinality(r.selection)))
    /\ UNCHANGED <<trains, now, list>>

\* ---------------------------------------------------------------- failures
\* A rollback that leaves the transaction's writes in the table.
RollbackKeepsWrites(committed, written) == written

\* connection.rollback(): the transaction's writes are discarded and the table
\* is as committed.
Rollback(committed, written) == committed

\* express-validator rejects the body of a book request: 400 is sent and the
\* connection released with neither rollback nor commit, so the transaction
\* begun on it stays open until the connection's next beginTransaction or
\* rollback.
BookInvalid(p, u) ==
    /\ GetConnection(p)
    /\ req' = [req EXCEPT ![p] = [IdleReq EXCEPT !.pc = "open"]]
    /\ resp' = Resp([op |-> "book", user |-> u], 400, "errors", 0, 0, 0)
    /\ UNCHANGED <<trains, bookings, now, list>>

\* express-validator rejects the body of a cancel request: rollback, 400,
\* release.
CancelInvalid(p, u) ==
    /\ GetConnection(p)
    /\ bookings' = Rollback(bookings, bookings)
    /\ Answer(p, Resp([op |-> "cancel", user |-> u], 400, "errors", 0, 0, 0))
    /\ UNCHANGED <<trains, now, list>>

\* connection.beginTransaction() rejects, before the try block is entered: the
\* handler's promise rejects, no response is sent and connection.release() is
\* never reached.
BeginTransactionFails(p, u, op) ==
    /\ GetConnection(p)
    /\ req' = [req EXCEPT ![p] =
                 [IdleReq EXCEPT !.op = op, !.pc = "leaked", !.user = u]]
    /\ resp' = NoResp
    /\ UNCHANGED <<trains, bookings, now, list>>

\* A query of a book request, or its commit, fails: the catch block rolls
\* back and sends 500, the finally block releases the connection.  At the
\* write the failure is that of the UPDATE or INSERT, or that of the commit
\* after the row was written in the transaction.
BookFails(p) ==
    /\ req[p].op = "book" /\ req[p].pc \in {"lock", "read", "write"}
    /\ \E written \in (IF req[p].pc = "write"
                        THEN {bookings, BookWritten(req[p])}
                        ELSE {bookings}) :
         bookings' = Rollback(bookings, written)
    /\ Answer(p, Resp(req[p], 500, "Error creating booking", 0, 0, 0))
    /\ UNCHANGED <<trains, now, list>>

\* The lookup of a cancel request fails: rollback, 500, release.
CancelReadFails(p, u) ==
    /\ GetConnection(p)
    /\ bookings' = Rollback(bookings, bookings)
    /\ Answer(p, Resp([op |-> "cancel", user |-> u], 500,
                      "Error cancelling booking", 0, 0, 0))
    /\ UNCHANGED <<trains, now, list>>

\* The UPDATE of a cancel request fails, or the commit after it.
CancelWriteFails(p) ==
    /\ req[p].op = "cancel" /\ req[p].pc = "c_write"
    /\ \E written \in {bookings, CancelWritten(req[p])} :
         bookings' = Rollback(bookings, written)
    /\ Answer(p, Resp(req[p], 500, "Error cancelling booking", 0, 0, 0))
    /\ UNCHANGED <<trains, now, list>>

\* The lookup without its user filter.
GetLookupAnyUser(bookingId, userId) == {i \in BookingIds : i = bookingId}

\* ------------------------------------------------------------ get booking
\* GET /:bookingId: WHERE b.id = ? AND b.user_id = ?
GetLookup(bookingId, userId) ==
    {i \in BookingIds : i = bookingId /\ bookings[i].user_id = userId}

\* GET /:bookingId: one query on the pool; the booking's details or 404.
GetBooking(u, bookingId) ==
    /\ IF GetLookup(bookingId, u) = {}
       THEN resp' = Resp([op |-> "get", user |-> u], 404, "Booking not found", 0, 0, 0)
       ELSE \E i \in GetLookup(bookingId, u) :
              resp' = Resp([op |-> "get", user |-> u], 200, "", i,
                           bookings[i].seats_booked, bookings[i].total_fare)
    /\ UNCHANGED <<trains, bookings, req, now, list>>

\* ------------------------------------------------------------ list bookings
\* No GET /user/bookings request is repairing rows.
NoList == [user |-> "none", rows |-> <<>>, repairs |-> {}]

\* WHERE b.user_id = ? ORDER BY b.booking_date DESC: the orders in which the
\* query may return the user's rows (rows of one date come in any order).
ListOrders(u) ==
    LET ids == {i \in BookingIds : bookings[i].user_id = u}
    IN  {s \in [1..Cardinality(ids) -> ids] :
            /\ \A i, j \in 1..Cardinality(ids) : i # j => s[i] # s[j]
            /\ \A i, j \in 1..Cardinality(ids) :
                 i < j => bookings[s[i]].booking_date >= bookings[s[j]].booking_date}

\* !booking.seats_booked || booking.seats_booked === 0
NeedsRepair(row) == row.seats_booked = 0

\* seats_booked: booking.seats_booked || 1
ListReported(row) == IF row.seats_booked = 0 THEN 1 ELSE row.seats_booked

\* The bookings the response lists: the rows read, in the query's order, each
\* with the seats reported for it.
ListRows(s) ==
    [i \in DOMAIN s |-> [id |-> s[i], seats_booked |-> ListReported(bookings[s[i]])]]

\* UPDATE bookings SET seats_booked = 1 WHERE id = ?
ListRepairRow(row) == [row EXCEPT !.seats_booked = 1]

\* res.json({success: true, bookings: updatedBookings})
ListResp(u, rows) ==
    [Resp([op |-> "list", user |-> u], 200, "", 0, 0, 0) EXCEPT !.rows = rows]

\* GET /user/bookings: the user's rows are read on the pool, outside any
\* transaction.  With no row to repair the response follows at once; else one
\* UPDATE per row to repair is issued and the response waits for them all.
ListBookings(u) ==
    /\ list = NoList
    /\ \E s \in ListOrders(u) :
         LET repairs == {i \in BookingIds :
                            bookings[i].user_id = u /\ NeedsRepair(bookings[i])}
         IN  IF repairs = {}
             THEN /\ resp' = ListResp(u, ListRows(s))
                  /\ list' = list
             ELSE /\ resp' = NoResp
                  /\ list' = [user |-> u, rows |-> ListRows(s), repairs |-> repairs]
    /\ UNCHANGED <<trains, bookings, req, now>>

\* One of the repair's UPDATEs runs, autocommitted, whatever the row holds by
\* now.
ListRepair(i) ==
    /\ i \in list.repairs
    /\ bookings' = [bookings EXCEPT ![i] = ListRepairRow(@)]
    /\ list' = [list EXCEPT !.repairs = @ \ {i}]
    /\ resp' = NoResp
    /\ UNCHANGED <<trains, req, now>>

\* All UPDATEs are done (Promise.all): the response is sent.
ListRespond ==
    /\ list # NoList /\ list.repairs = {}
    /\ resp' = ListResp(list.user, list.rows)
    /\ list' = NoList
    /\ UNCHANGED <<trains, bookings, req, now>>

\* ---------------------------------------------------------- train endpoints
\* The count without its status filter: cancelled bookings counted too.
SearchBookedSeatsAnyStatus(t, d, f, o) ==
    Cardinality({i \in BookingIds : /\ bookings[i].train_id = t
                                    /\ bookings[i].booking_date = d
                                    /\ bookings[i].from_station_id = f
                                    /\ bookings[i].to_station_id = o})

\* GET /search, booked_seats: SELECT COUNT(*) of the confirmed bookings of the
\* train for the date and segment.
SearchBookedSeats(t, d, f, o) == Cardinality(ConfirmedForKey(t, d, f, o))

\* GET /search, available_seats = total_seats - booked_seats
SearchAvailableSeats(t, d, f, o) ==
    trains[t].total_seats - SearchBookedSeats(t, d, f, o)

\* GET /search lists the train: HAVING (t.total_seats - booked_seats) > 0
SearchListed(t, d, f, o) == SearchAvailableSeats(t, d, f, o) > 0

\* GET / and GET /number/:trainNumber, booked_seats: SELECT COUNT(*) of the
\* train's confirmed bookings, whatever their date and segment.
TrainBookedSeats(t) ==
    Cardinality({i \in BookingIds : /\ bookings[i].train_id = t
                                    /\ bookings[i].booking_status = "confirmed"})

\* GET / and GET /number/:trainNumber, available_seats
TrainAvailableSeats(t) == trains[t].total_seats - TrainBookedSeats(t)

\* ------------------------------------------------------------------- clock
\* Time passes.
Tick ==
    /\ \E t \in ClockValues : t = now + 1 /\ now' = t
    /\ resp' = NoResp
    /\ UNCHANGED <<trains, bookings, req, list>>

\* ------------------------------------------------------------------- admin
\* PATCH /:trainId/fare: UPDATE trains SET fare = ? WHERE id = ?, one
\* autocommitted statement, which waits for the train row's lock.
UpdateFare(trainId, fare) ==
    /\ TrainLockHolders(trainId) = {}
    /\ IF trainId \in DOMAIN trains
       THEN /\ trains' = [trains EXCEPT ![trainId].fare = fare]
            /\ resp' = Resp([op |-> "fare", user |-> "admin"], 200,
                            "Train fare updated successfully", 0, 0, 0)
       ELSE /\ trains' = trains
            /\ resp' = Resp([op |-> "fare", user |-> "admin"], 404,
                            "Train not found", 0, 0, 0)
    /\ UNCHANGED <<bookings, req, now, list>>

\* PATCH /:trainId/seats: UPDATE trains SET total_seats = ? WHERE id = ?
UpdateSeats(trainId, total_seats) ==
    /\ TrainLockHolders(trainId) = {}
    /\ IF trainId \in DOMAIN trains
       THEN /\ trains' = [trains EXCEPT ![trainId].total_seats = total_seats]
            /\ resp' = Resp([op |-> "seats", user |-> "admin"], 200,
                            "Train seats updated successfully", 0, 0, 0)
       ELSE /\ trains' = trains
            /\ resp' = Resp([op |-> "seats", user |-> "admin"], 404,
                            "Train not found", 0, 0, 0)
    /\ UNCHANGED <<bookings, req, now, list>>

\* ------------------------------------------------------------ specifications
\* One train of one or two seats at fare 100, no booking, no request, and a clock at
\* 24 hours and one minute before the travel date.
Init ==
    /\ \E n \in TotalSeatsInputs :
         trains = [t \in {1} |-> [total_seats |-> n, fare |-> 100]]
    /\ bookings = <<>>
    /\ req = [p \in Procs |-> IdleReq]
    /\ now = 1439
    /\ list = NoList
    /\ resp = NoResp

\* Book and cancel requests, in any interleaving of their steps.
NextBooking ==
    \/ \E p \in Procs, u \in Users, t \in TrainIdInputs, s \in SegmentInputs,
          d \in DateInputs : BookStart(p, u, t, s[1], s[2], d)
    \/ \E p \in Procs : BookLockTrain(p)
    \/ \E p \in Procs : BookRead(p)
    \/ \E p \in Procs : BookWrite(p)
    \/ \E p \in Procs, u \in Users, b \in 1..MaxBookings,
          k \in SeatsToCancelInputs : CancelRead(p, u, b, k)
    \/ \E p \in Procs : CancelWrite(p)

\* Book, cancel and list requests.
Next ==
    \/ NextBooking
    \/ \E u \in Users : ListBookings(u)

Spec == Init /\ [][Next]_vars

\* Book and cancel requests while time passes.
NextClock == NextBooking \/ Tick

SpecClock == Init /\ [][NextClock]_vars

\* Book, cancel and list requests with an admin updating the train.
NextAdmin ==
    \/ Next
    \/ \E t \in TrainIdInputs, fare \in FareInputs : UpdateFare(t, fare)
    \/ \E t \in TrainIdInputs, n \in TotalSeatsInputs : UpdateSeats(t, n)

SpecAdmin == Init /\ [][NextAdmin]_vars

\* A booking from before the table had a seats_booked column: one seat of u1
\* on date d at fare 100, recorded with seats_booked = 0.
LegacyRow(d) == BookingRow("u1", 1, 1, 2, d, 0, 100, "confirmed")

\* The ledger starts with one legacy booking, for the key the requests book.
InitLegacy ==
    /\ trains = [t \in {1} |-> [total_seats |-> 2, fare |-> 100]]
    /\ \E d \in DateInputs : bookings = <<LegacyRow(d)>>
    /\ req = [p \in Procs |-> IdleReq]
    /\ now = 1439
    /\ list = NoList
    /\ resp = NoResp

\* Book, cancel and list requests, the list's read repair included, and get
\* requests for the legacy booking by either user.
NextLegacy ==
    \/ Next
    \/ \E u \in Users : GetBooking(u, 1)
    \/ \E i \in 1..MaxBookings : ListRepair(i)
    \/ ListRespond

SpecLegacy == InitLegacy /\ [][NextLegacy]_vars

\* Book and cancel requests against a store whose queries may fail and with
\* bodies the validator may reject.
NextFail ==
    \/ NextBooking
    \/ \E p \in Procs, u \in Users : BookInvalid(p, u)
    \/ \E p \in Procs, u \in Users : CancelInvalid(p, u)
    \/ \E p \in Procs, u \in Users, op \in {"book", "cancel"} :
          BeginTransactionFails(p, u, op)
    \/ \E p \in Procs : BookFails(p)
    \/ \E p \in Procs, u \in Users : CancelReadFails(p, u)
    \/ \E p \in Procs : CancelWriteFails(p)

SpecFail == Init /\ [][NextFail]_vars

\* Table train_routes: for each train, the stations of its route with their
\* sequence numbers.  Stations 1 and 2 are on both routes, in that order;
\* station 3 is a row of table stations that is on neither.
TrainRoutes == [t \in {1, 2} |-> (1 :> 1) @@ (2 :> 2)]

\* Both stations are on the train's route and the origin comes first:
\* tr1.sequence_number < tr2.sequence_number
ValidSegment(t, f, o) ==
    /\ t \in DOMAIN TrainRoutes
    /\ f \in DOMAIN TrainRoutes[t] /\ o \in DOMAIN TrainRoutes[t]
    /\ TrainRoutes[t][f] < TrainRoutes[t][o]

\* The keys <<train_id, booking_date, from_station_id, to_station_id>> a book
\* request may name: one segment of train 1 on two dates and of train 2, and on
\* train 1 the reversed segment, a segment of one station and a segment to a
\* station off the route.  Every station id is a row of table stations, as the
\* foreign keys of table bookings require.
KeyInputs ==
    {<<1, 2, 1, 2>>, <<1, 3, 1, 2>>, <<2, 2, 1, 2>>,
     <<1, 2, 2, 1>>, <<1, 2, 1, 1>>, <<1, 2, 1, 3>>}

\* Two trains of two seats at fare 100, no booking, no request.
InitKeys ==
    /\ trains = [t \in {1, 2} |-> [total_seats |-> 2, fare |-> 100]]
    /\ bookings = <<>>
    /\ req = [p \in Procs |-> IdleReq]
    /\ now = 1439
    /\ list = NoList
    /\ resp = NoResp

\* Book requests for any of the keys.
NextKeys ==
    \/ \E p \in Procs, u \in Users, k \in KeyInputs :
          BookStart(p, u, k[1], k[3], k[4], k[2])
    \/ \E p \in Procs : BookLockTrain(p)
    \/ \E p \in Procs : BookRead(p)
    \/ \E p \in Procs : BookWrite(p)

SpecKeys == InitKeys /\ [][NextKeys]_vars

\* GET /search: the trains listed for (from_station_id, to_station_id, date),
\* those whose route has both stations in that order and that have a seat
\* left for the date and segment.
SearchTrains(f, o, d) ==
    {t \in DOMAIN trains : ValidSegment(t, f, o) /\ SearchListed(t, d, f, o)}

\* The keys <<train_id, booking_date, from_station_id, to_station_id>> searched
\* and booked: a segment of train 1 and the same segment reversed.
SearchKeyInputs == {<<1, 2, 1, 2>>, <<1, 2, 2, 1>>}

\* Book and cancel requests for the keys searched, served one at a time (each
\* on the pool's first connection).
NextSearch ==
    \/ \E u \in Users, k \in SearchKeyInputs :
          BookStart(1, u, k[1], k[3], k[4], k[2])
    \/ BookLockTrain(1)
    \/ BookRead(1)
    \/ BookWrite(1)
    \/ \E u \in Users, b \in 1..MaxBookings, k \in SeatsToCancelInputs :
          CancelRead(1, u, b, k)
    \/ CancelWrite(1)

SpecSearch == Init /\ [][NextSearch]_vars

\* Travel dates of the seat selections.
SeatDateInputs == {2, 3}

\* One train of two seats at fare 100, no booking, no request.
InitSeats ==
    /\ trains = [t \in {1} |-> [total_seats |-> 2, fare |-> 100]]
    /\ bookings = <<>>
    /\ req = [p \in Procs |-> IdleReq]
    /\ now = 1439
    /\ list = NoList
    /\ resp = NoResp

\* Book requests of the seat-selection variant.
NextSeats ==
    \/ \E p \in Procs, u \in Users, d \in SeatDateInputs,
          selection \in SUBSET {1, 2} \ {{}} : SeatBookRead(p, u, 1, d, selection)
    \/ \E p \in Procs : SeatBookWrite(p)

SpecSeats == InitSeats /\ [][NextSeats]_vars

\* Book, cancel and list requests, bodies the validator rejects among them.
NextLive ==
    \/ Next
    \/ \E i \in 1..MaxBookings : ListRepair(i)
    \/ ListRespond
    \/ \E p \in Procs, u \in Users : BookInvalid(p, u)
    \/ \E p \in Procs, u \in Users : CancelInvalid(p, u)

\* The scheduling of the requests in flight: the event loop resumes every
\* handler whose awaited query has been answered, the store answers every
\* query, and it grants a row lock to every waiter in turn.
Fairness ==
    /\ \A p \in Procs :
         /\ SF_vars(BookLockTrain(p))
         /\ WF_vars(BookRead(p))
         /\ WF_vars(BookWrite(p))
         /\ WF_vars(CancelWrite(p))
    /\ WF_vars(\E i \in 1..MaxBookings : ListRepair(i))
    /\ WF_vars(ListRespond)

SpecLive == InitLegacy /\ [][NextLive]_vars /\ Fairness

\* Travel dates of the bookings a ledger holds.
LedgerDates == {1, 2, 3}

\* The booking rows a ledger may hold: of any user, date and status, legacy
\* rows (seats_booked = 0) among them.
LedgerRows ==
    {BookingRow(u, 1, 1, 2, d, n, 100, st) :
        u \in Users, d \in LedgerDates, n \in {0, 1}, st \in BookingStatus}

\* The ledgers of up to MaxBookings rows.
Ledgers == UNION {[1..n -> LedgerRows] : n \in 0..MaxBookings}

\* Any ledger, and no request.
InitReads ==
    /\ trains = [t \in {1} |-> [total_seats |-> 2, fare |-> 100]]
    /\ bookings \in Ledgers
    /\ req = [p \in Procs |-> IdleReq]
    /\ now = 1439
    /\ list = NoList
    /\ resp = NoResp

\* Get and list requests, the list's read repair included.
NextReads ==
    \/ \E u \in Users, b \in 1..MaxBookings : GetBooking(u, b)
    \/ \E u \in Users : ListBookings(u)
    \/ \E i \in 1..MaxBookings : ListRepair(i)
    \/ ListRespond

SpecReads == InitReads /\ [][NextReads]_vars

\* ------------------------------------------------------------------ claims
RECURSIVE SumSeats(_)
\* The seats of the booking rows ids, added up.
SumSeats(ids) ==
    IF ids = {} THEN 0
    ELSE LET i == CHOOSE i \in ids : TRUE
         IN  bookings[i].seats_booked + SumSeats(ids \ {i})

\* The seats committed for a key: seats_booked summed over its confirmed bookings.
SeatsCommitted(t, d, f, o) == SumSeats(ConfirmedForKey(t, d, f, o))

\* The seats that remain for a key.
SeatsRemaining(t, d, f, o) == trains[t].total_seats - SeatsCommitted(t, d, f, o)

\* Request r is a book request for the key of request s.
SameKey(r, s) ==
    /\ r.train_id = s.train_id /\ r.booking_date = s.booking_date
    /\ r.from_station_id = s.from_station_id /\ r.to_station_id = s.to_station_id

\* C1 (no oversell): for every train and every date and segment, the seats
\* booked by the confirmed bookings never add up to more than the train's
\* total_seats.
C1_NoOversell ==
    \A t \in DOMAIN trains, d \in DateInputs, s \in SegmentInputs :
        SeatsCommitted(t, d, s[1], s[2]) <= trains[t].total_seats

\* C2 (last-seat race): when exactly one seat remains for a key and two
\* different users have a book request for it in flight, then once one of them
\* commits its booking the other one is turned away: the availability its guard
\* is about to compute is not positive.
C2_LastSeatRace ==
    [][\A p, q \in Procs :
         LET t == req[q].train_id
             d == req[q].booking_date
             f == req[q].from_station_id
             o == req[q].to_station_id
         IN  ( /\ req[p].op = "book" /\ req[p].pc = "write"
               /\ req[q].op = "book" /\ req[q].pc = "lock"
               /\ SameKey(req[p], req[q])
               /\ req[p].user # req[q].user
               /\ t \in DOMAIN trains
               /\ SeatsRemaining(t, d, f, o) = 1
               /\ req'[p].op = "idle" /\ resp'.status = 201 )
             => AvailableSeats(trains[t].total_seats, t, d, f, o)' <= 0]_vars

\* C3 (no lost update): every committed cancel of k seats takes exactly k
\* seats off the booking as it stands at the commit (or cancels a booking that
\* holds exactly k), and every committed book on an existing booking adds
\* exactly one seat to it.
C3_NoLostUpdate ==
    [][\A p \in Procs :
         LET id == req[p].bookingId
             k == req[p].seatsToCancel
         IN  /\ ( /\ req[p].op = "cancel" /\ req[p].pc = "c_write"
                  /\ req'[p].op = "idle" )
                => /\ bookings[id].booking_status = "confirmed"
                   /\ IF bookings'[id].booking_status = "cancelled"
                      THEN bookings[id].seats_booked = k
                      ELSE bookings'[id].seats_booked = bookings[id].seats_booked - k
             /\ ( /\ req[p].op = "book" /\ req[p].pc = "write" /\ id # 0
                  /\ req'[p].op = "idle" )
                => /\ bookings'[id].booking_status = "confirmed"
                   /\ bookings'[id].seats_booked = bookings[id].seats_booked + 1]_vars

\* C4 (fare consistency at all times): whatever the admin sets the fare to,
\* every confirmed booking of a train costs its seats times the train's
\* current fare.
C4_FareConsistentAlways ==
    \A t \in DOMAIN trains : \A i \in BookingIds :
        (bookings[i].train_id = t /\ bookings[i].booking_status = "confirmed")
            => bookings[i].total_fare = bookings[i].seats_booked * trains[t].fare

\* C5 (fare consistency across create and cancel): with the fare left alone,
\* every confirmed booking has total_fare = seats_booked * fare, after every
\* book and every cancel, in any interleaving.
C5_FareConsistency ==
    \A i \in BookingIds :
        bookings[i].booking_status = "confirmed"
            => bookings[i].total_fare
                 = bookings[i].seats_booked * trains[bookings[i].train_id].fare

\* A partial cancel has just committed on a booking of several seats, which
\* stays confirmed with the seats that remain.
C5_Witness ==
    /\ resp.op = "cancel" /\ resp.status = 200 /\ resp.seats >= 1
    /\ bookings[resp.booking_id].booking_status = "confirmed"
    /\ bookings[resp.booking_id].seats_booked = resp.seats
\* C6 (partial/full cancel transition): a committed cancel of k seats on a
\* confirmed booking that holds n seats, 1 <= k <= n, leaves n - k seats at
\* (n - k) * fare and the status confirmed when k < n, and the status
\* cancelled when k = n.
C6_CancelTransition ==
    [][\A p \in Procs :
         ( /\ req[p].op = "cancel" /\ req[p].pc = "c_write"
           /\ req'[p].op = "idle" )
         => LET id == req[p].bookingId
                k == req[p].seatsToCancel
                n == bookings[id].seats_booked
                fare == trains[bookings[id].train_id].fare
            IN  (bookings[id].booking_status = "confirmed" /\ 1 <= k /\ k <= n)
                => IF k < n
                   THEN bookings'[id] =
                          [bookings[id] EXCEPT !.seats_booked = n - k,
                                               !.total_fare = (n - k) * fare]
                   ELSE bookings'[id].booking_status = "cancelled"]_vars

\* This step is process p taking up a cancel request of user u: p was idle,
\* and now holds the request or has answered it.
CancelStepBy(p, u) ==
    /\ req[p].op = "idle"
    /\ \/ req'[p].op = "cancel" /\ req'[p].user = u
       \/ req' = req /\ resp'.op = "cancel" /\ resp'.user = u

\* The message of the window rejection.
WindowMessage == "Bookings can only be cancelled at least 24 hours before booking date"

\* C7 (cancellation window): a cancel of the caller's confirmed booking,
\* processed when the travel date is less than 24 hours away, is rejected with
\* the window error and changes nothing; processed when the travel date is 24
\* hours away or more, it is not rejected for the window.
C7_CancellationWindow ==
    [][\A p \in Procs, u \in Users :
         CancelStepBy(p, u) =>
           \A b \in 1..MaxBookings :
             ( /\ b \in BookingIds
               /\ bookings[b].user_id = u
               /\ bookings[b].booking_status = "confirmed" )
             => \A k \in SeatsToCancelInputs :
                \/ IF bookings[b].booking_date * 1440 - now < 1440
                   THEN /\ resp'.status = 400 /\ resp'.message = WindowMessage
                        /\ bookings' = bookings /\ req' = req
                   ELSE resp'.message # WindowMessage
                \/ ~CancelRead(p, u, b, k)]_vars

\* A cancel has just been rejected 23 hours 59 minutes before the travel date,
\* and another booking was cancelled before.
C7_Witness ==
    /\ resp.op = "cancel" /\ resp.status = 400 /\ resp.message = WindowMessage
    /\ now = 1441
    /\ \E i \in BookingIds : /\ bookings[i].booking_status = "cancelled"
                             /\ bookings[i].booking_date * 1440 - now = 1439

\* C8 (over-cancel rejection): a cancel of the caller's confirmed booking,
\* inside the window, that asks for more seats than the booking holds is
\* rejected with the over-cancel error and changes no booking.
C8_OverCancelRejected ==
    [][\A p \in Procs, u \in Users :
         CancelStepBy(p, u) =>
           \A b \in 1..MaxBookings, k \in SeatsToCancelInputs :
             ( /\ b \in BookingIds
               /\ bookings[b].user_id = u
               /\ bookings[b].booking_status = "confirmed"
               /\ bookings[b].booking_date * 1440 - now >= 1440
               /\ (IF k = 0 THEN 1 ELSE k) > bookings[b].seats_booked )
             => \/ /\ resp'.status = 400
                   /\ resp'.message = "Cannot cancel more seats than booked"
                   /\ bookings' = bookings /\ req' = req
                \/ ~CancelRead(p, u, b, k)]_vars

\* A cancel has just been rejected for asking more seats than its booking, a
\* confirmed booking of the caller, holds.
C8_Witness ==
    /\ resp.op = "cancel" /\ resp.status = 400
    /\ resp.message = "Cannot cancel more seats than booked"
    /\ \E i \in BookingIds : /\ bookings[i].user_id = resp.user
                             /\ bookings[i].booking_status = "confirmed"
                             /\ bookings[i].seats_booked = resp.seats

\* C9 (cancel ownership and status guard): a cancel for a booking id that does
\* not exist, is another user's or is not confirmed is rejected with not-found
\* and changes no booking; and a booking loses seats or becomes cancelled only
\* in the commit of a cancel of its own user.
C9_CancelGuard ==
    [][/\ \A p \in Procs, u \in Users :
            CancelStepBy(p, u) =>
              \A b \in 1..MaxBookings, k \in SeatsToCancelInputs :
                ( \/ b \notin BookingIds
                  \/ bookings[b].user_id # u
                  \/ bookings[b].booking_status # "confirmed" )
                => \/ /\ resp'.status = 404
                      /\ resp'.message = "Booking not found or already cancelled"
                      /\ bookings' = bookings /\ req' = req
                   \/ ~CancelRead(p, u, b, k)
       /\ \A i \in BookingIds :
            ( \/ bookings'[i].seats_booked < bookings[i].seats_booked
              \/ /\ bookings[i].booking_status = "confirmed"
                 /\ bookings'[i].booking_status = "cancelled" )
            => \E p \in Procs :
                 /\ req[p].op = "cancel" /\ req[p].pc = "c_write"
                 /\ req[p].bookingId = i /\ req[p].user = bookings[i].user_id
                 /\ req'[p].op = "idle"]_vars

\* A cancel has just been answered not-found while every booking there is
\* belongs to another user, one of them confirmed.
C9_Witness ==
    /\ resp.op = "cancel" /\ resp.status = 404
    /\ Len(bookings) = MaxBookings
    /\ \A i \in BookingIds : bookings[i].user_id # resp.user
    /\ \E i \in BookingIds : bookings[i].booking_status = "confirmed"

\* C10 (cancelled is terminal): a cancelled booking stays cancelled in every
\* step; and a book that finds no confirmed booking of its user for its key
\* goes on to insert, and its insert adds a new confirmed row and leaves the
\* rows there are alone.
C10_CancelledTerminal ==
    [][/\ \A i \in BookingIds :
            bookings[i].booking_status = "cancelled"
                => bookings'[i].booking_status = "cancelled"
       /\ \A p \in Procs :
            /\ ( /\ req[p].op = "book" /\ req[p].pc = "read"
                 /\ req'[p].pc = "write"
                 /\ ~ \E i \in BookingIds :
                        /\ bookings[i].booking_status = "confirmed"
                        /\ bookings[i].user_id = req[p].user
                        /\ SameKey(bookings[i], req[p]) )
               => req'[p].bookingId = 0
            /\ ( /\ req[p].op = "book" /\ req[p].pc = "write"
                 /\ req[p].bookingId = 0 /\ req'[p].op = "idle" )
               => /\ Len(bookings') = Len(bookings) + 1
                  /\ bookings'[Len(bookings')].booking_status = "confirmed"
                  /\ bookings'[Len(bookings')].user_id = req[p].user
                  /\ \A i \in BookingIds : bookings'[i] = bookings[i]]_vars

\* A user whose booking was cancelled has just booked the same key again and
\* got a new confirmed booking, the cancelled one still cancelled.
C10_Witness ==
    /\ resp.op = "book" /\ resp.status = 201
    /\ \E i \in BookingIds :
         /\ i < resp.booking_id
         /\ bookings[i].booking_status = "cancelled"
         /\ bookings[i].user_id = resp.user
         /\ SameKey(bookings[i], bookings[resp.booking_id])
         /\ bookings[resp.booking_id].booking_status = "confirmed"
\* C11 (refund amount): every committed cancel answers 200 with refund_amount
\* = k * fare of the booking's train and remaining_seats = the seats_booked it
\* read - k, which is what the booking then holds (cancelled when 0); k is 1
\* when the request names no count; and the cancel writes its booking row and
\* nothing else.
C11_RefundAmount ==
    [][\A p \in Procs :
         /\ ( /\ req[p].op = "cancel" /\ req[p].pc = "c_write"
              /\ req'[p].op = "idle" )
            => LET id == req[p].bookingId
                   k == req[p].seatsToCancel
               IN  /\ resp'.op = "cancel" /\ resp'.status = 200
                   /\ resp'.booking_id = id
                   /\ resp'.amount = k * trains[bookings[id].train_id].fare
                   /\ resp'.seats = req[p].seats_booked - k
                   /\ IF resp'.seats = 0
                      THEN bookings'[id].booking_status = "cancelled"
                      ELSE bookings'[id].seats_booked = resp'.seats
                   /\ Len(bookings') = Len(bookings)
                   /\ \A j \in BookingIds \ {id} : bookings'[j] = bookings[j]
                   /\ trains' = trains
         /\ \A u \in Users :
              (CancelStepBy(p, u) /\ req'[p].op = "cancel") =>
                \A b \in 1..MaxBookings, k \in SeatsToCancelInputs :
                  \/ req'[p].seatsToCancel = (IF k = 0 THEN 1 ELSE k)
                  \/ ~CancelRead(p, u, b, k)]_vars

\* A cancel of two seats has just committed with a refund of twice the fare.
C11_Witness ==
    /\ resp.op = "cancel" /\ resp.status = 200
    /\ resp.amount = 2 * trains[bookings[resp.booking_id].train_id].fare
    /\ resp.seats = 0
    /\ bookings[resp.booking_id].booking_status = "cancelled"
\* C12 (availability formula): for every train, date and segment, the
\* availability book's guard computes, and the one search reports, is
\* total_seats minus the sum of seats_booked over the confirmed bookings of
\* that train, date and segment.
C12_AvailabilityFormula ==
    \A t \in DOMAIN trains, d \in DateInputs, s \in SegmentInputs :
        /\ AvailableSeats(trains[t].total_seats, t, d, s[1], s[2])
             = trains[t].total_seats - SeatsCommitted(t, d, s[1], s[2])
        /\ SearchAvailableSeats(t, d, s[1], s[2])
             = trains[t].total_seats - SeatsCommitted(t, d, s[1], s[2])

\* C13 (availability is never negative): whatever is booked, cancelled and
\* set as total_seats by the admin, total_seats minus the seats committed is
\* at least 0 for every train, date and segment, and so is every
\* available_seats the train endpoints report.
C13_AvailabilityNonNegative ==
    \A t \in DOMAIN trains :
        /\ TrainAvailableSeats(t) >= 0
        /\ \A d \in DateInputs, s \in SegmentInputs :
             /\ SeatsRemaining(t, d, s[1], s[2]) >= 0
             /\ SearchListed(t, d, s[1], s[2])
                  => SearchAvailableSeats(t, d, s[1], s[2]) >= 0

\* C14 (rejected book leaves no trace): a book for a train that does not exist
\* is answered 404, and a book for a key the guard counts no free seat for is
\* answered 400; every book that ends without a 201 has released its
\* connection and lock and left every booking row as it was.
C14_RejectedBookNoTrace ==
    [][\A p \in Procs :
         LET r == req[p]
         IN  /\ ( /\ r.op = "book" /\ r.pc = "lock" /\ req'[p] # r
                  /\ r.train_id \notin DOMAIN trains )
                => /\ resp'.status = 404 /\ resp'.message = "Train not found"
                   /\ req'[p] = IdleReq /\ bookings' = bookings
             /\ ( /\ r.op = "book" /\ r.pc = "read" /\ req'[p] # r
                  /\ trains[r.train_id].total_seats
                       - Cardinality(ConfirmedForKey(r.train_id, r.booking_date,
                                                     r.from_station_id,
                                                     r.to_station_id)) <= 0 )
                => /\ resp'.status = 400 /\ resp'.message = "No seats available"
                   /\ req'[p] = IdleReq /\ bookings' = bookings
             /\ (r.op = "book" /\ req'[p] = IdleReq /\ resp'.status # 201)
                => bookings' = bookings /\ trains' = trains]_vars

\* A book has just been turned away for want of seats, the train's seats
\* being taken by confirmed bookings.
C14_Witness ==
    /\ resp.op = "book" /\ resp.status = 400
    /\ resp.message = "No seats available"
    /\ \E t \in DOMAIN trains : TrainBookedSeats(t) >= trains[t].total_seats

\* C15 (admission effect): a committed book of a user with no confirmed booking
\* for the key inserts one confirmed booking of 1 seat at the fare; with such a
\* booking it adds exactly one seat to it and sets total_fare to the new seats
\* times the fare, creating no row; no other row changes, and the response
\* reports the booking's resulting seats_booked and total_fare.
C15_AdmissionEffect ==
    [][\A p \in Procs :
         ( /\ req[p].op = "book" /\ req[p].pc = "write"
           /\ req'[p].op = "idle" )
         => LET r == req[p]
                fare == trains[r.train_id].fare
                own == {i \in BookingIds :
                          /\ bookings[i].booking_status = "confirmed"
                          /\ bookings[i].user_id = r.user
                          /\ SameKey(bookings[i], r)}
                new == Len(bookings) + 1
            IN  /\ resp'.status = 201
                /\ IF own = {}
                   THEN /\ bookings' =
                             Append(bookings,
                                    BookingRow(r.user, r.train_id, r.from_station_id,
                                               r.to_station_id, r.booking_date,
                                               1, fare, "confirmed"))
                        /\ resp'.booking_id = new
                        /\ resp'.seats = 1 /\ resp'.amount = fare
                   ELSE \E i \in own :
                          /\ bookings' =
                               [bookings EXCEPT
                                  ![i].seats_booked = @ + 1,
                                  ![i].total_fare = (bookings[i].seats_booked + 1) * fare]
                          /\ resp'.booking_id = i
                          /\ resp'.seats = bookings'[i].seats_booked
                          /\ resp'.amount = bookings'[i].total_fare]_vars

\* C16 (no empty confirmed booking): from a ledger without zero-seat rows, no
\* book or cancel ever leaves a booking row with fewer than 1 seat: a cancel
\* of all the seats marks the row cancelled and writes no 0.
C16_NoEmptyBooking ==
    \A i \in BookingIds : bookings[i].seats_booked >= 1

\* A cancel of the one seat of a booking has just committed: the booking is
\* cancelled and still records its seat.
C16_Witness ==
    /\ resp.op = "cancel" /\ resp.status = 200 /\ resp.seats = 0
    /\ resp.amount = trains[bookings[resp.booking_id].train_id].fare
    /\ bookings[resp.booking_id].booking_status = "cancelled"
    /\ bookings[resp.booking_id].seats_booked = 1
\* This step is the read of a GET /user/bookings request of user u: its
\* response, or the start of its read repair.
ListStepBy(u) ==
    /\ list = NoList
    /\ \/ list' # NoList /\ list'.user = u
       \/ list' = NoList /\ resp'.op = "list" /\ resp'.user = u

\* The bookings a list's read step has read.
ListStepRows == IF list' # NoList THEN list'.rows ELSE resp'.rows

\* C17 (idempotent read repair): a list reports a booking read with
\* seats_booked = 0 as one of 1 seat and its repair stores 1; a list of a user
\* without such a booking starts no repair and writes nothing; and a booking
\* that holds 1 seat or more is never changed by a list.
C17_IdempotentReadRepair ==
    [][/\ \A u \in Users :
            ListStepBy(u) =>
              /\ bookings' = bookings
              /\ \A k \in DOMAIN ListStepRows :
                   ListStepRows[k].seats_booked =
                     IF bookings[ListStepRows[k].id].seats_booked = 0 THEN 1
                     ELSE bookings[ListStepRows[k].id].seats_booked
              /\ (\A i \in BookingIds :
                    bookings[i].user_id = u => bookings[i].seats_booked >= 1)
                 => list' = NoList
       /\ \A i \in BookingIds :
            (i \in list.repairs /\ i \notin list'.repairs)
            => /\ bookings'[i].seats_booked = 1
               /\ bookings[i].seats_booked >= 1 => bookings'[i] = bookings[i]]_vars

\* C18 (ownership isolation of reads): a get answers with the booking when it
\* is the caller's and with not-found otherwise; a list reads exactly the
\* caller's bookings, each once, later travel dates first, and answers with
\* what it read; neither changes a booking row by reading.
C18_ReadIsolation ==
    [][/\ \A u \in Users, b \in 1..MaxBookings :
            (resp'.op = "get" /\ resp'.user = u) =>
              \/ /\ bookings' = bookings
                 /\ IF b \in BookingIds /\ bookings[b].user_id = u
                    THEN /\ resp'.status = 200 /\ resp'.booking_id = b
                         /\ resp'.seats = bookings[b].seats_booked
                         /\ resp'.amount = bookings[b].total_fare
                    ELSE resp'.status = 404 /\ resp'.booking_id = 0
              \/ ~GetBooking(u, b)
       /\ \A u \in Users :
            ListStepBy(u) =>
              LET rows == ListStepRows
                  own == {i \in BookingIds : bookings[i].user_id = u}
              IN  /\ {rows[k].id : k \in DOMAIN rows} = own
                  /\ Len(rows) = Cardinality(own)
                  /\ \A j, k \in DOMAIN rows :
                       j < k => bookings[rows[j].id].booking_date
                                  >= bookings[rows[k].id].booking_date
       /\ (list # NoList /\ list' = NoList)
          => /\ resp'.op = "list" /\ resp'.user = list.user
             /\ resp'.rows = list.rows]_vars

\* A list has just answered with the caller's one booking, the other booking
\* of the ledger being another user's.
C18_Witness ==
    /\ resp.op = "list" /\ resp.status = 200
    /\ Len(bookings) = 2 /\ Len(resp.rows) = 1
    /\ bookings[resp.rows[1].id].user_id = resp.user
    /\ \E i \in BookingIds : bookings[i].user_id # resp.user

\* C19 (bookings are never destroyed): no step removes a booking row or gives
\* a row another user or key, and a cancel of all the seats changes nothing of
\* its row but the status, which becomes cancelled.
C19_NeverDestroyed ==
    [][/\ Len(bookings') >= Len(bookings)
       /\ \A i \in BookingIds :
            /\ bookings'[i].user_id = bookings[i].user_id
            /\ SameKey(bookings'[i], bookings[i])
       /\ \A p \in Procs :
            ( /\ req[p].op = "cancel" /\ req[p].pc = "c_write"
              /\ req'[p].op = "idle" /\ resp'.seats = 0 )
            => bookings' = [bookings EXCEPT
                              ![req[p].bookingId].booking_status = "cancelled"]]_vars

\* Every row the table has room for is there, one of them cancelled by the
\* cancel that has just committed.
C19_Witness ==
    /\ Len(bookings) = MaxBookings
    /\ resp.op = "cancel" /\ resp.status = 200 /\ resp.seats = 0
    /\ bookings[resp.booking_id].booking_status = "cancelled"
    /\ bookings[resp.booking_id].seats_booked >= 1

\* C20 (single guarded write path): a booking row changes, or is added, only
\* in the commit of a book or cancel transaction: no other operation, a list
\* in particular, writes booking rows.
C20_SingleWritePath ==
    [][bookings' # bookings
         => \E p \in Procs :
              /\ \/ req[p].op = "book" /\ req[p].pc = "write"
                 \/ req[p].op = "cancel" /\ req[p].pc = "c_write"
              /\ req'[p].op = "idle"]_vars

\* The generic errors of book and of cancel.
GenericErrors == {"Error creating booking", "Error cancelling booking"}

C23_ConnectionRelease ==
    \A p \in Procs :
        req[p].op # "idle" => req[p].pc \in {"lock", "read", "write", "c_write"}

\* C22 (lock granularity): a book request that waits for the lock of its train
\* row waits only for a book of its own train, date and segment; a book for
\* another train, another date or another segment never holds it up.
C22_LockGranularity ==
    \A p, q \in Procs :
        ( /\ req[p].op = "book" /\ req[p].pc = "lock"
          /\ req[p].train_id \in DOMAIN trains
          /\ q \in TrainLockHolders(req[p].train_id) )
        => SameKey(req[p], req[q])

\* C24 (segment validity): every confirmed booking is for a segment of its
\* train's route, both stations on the route and the origin before the
\* destination.
C24_SegmentValidity ==
    \A i \in BookingIds :
        bookings[i].booking_status = "confirmed"
        => ValidSegment(bookings[i].train_id, bookings[i].from_station_id,
                        bookings[i].to_station_id)

\* C25 (seat-level exclusivity, seat-selection variant): a selection that
\* overlaps the seats taken for its train and date is rejected, the rejection
\* lists exactly the requested seats that are taken and no booking changes; a
\* selection that overlaps none is admitted; and no seat ever belongs to two
\* confirmed bookings of one train and date, so of two requests with
\* overlapping selections exactly one succeeds.
C25_SeatExclusivity ==
    [][/\ \A i, j \in 1..Len(bookings') :
            ( /\ i # j
              /\ bookings'[i].booking_status = "confirmed"
              /\ bookings'[j].booking_status = "confirmed"
              /\ bookings'[i].train_id = bookings'[j].train_id
              /\ bookings'[i].booking_date = bookings'[j].booking_date )
            => bookings'[i].seats \cap bookings'[j].seats = {}
       /\ \A p \in Procs, u \in Users, d \in SeatDateInputs,
             selection \in SUBSET {1, 2} \ {{}} :
            \/ IF selection \cap SeatsTaken(1, d) # {}
               THEN /\ resp'.status = 400
                    /\ resp'.rows = SeatList(selection \cap SeatsTaken(1, d))
                    /\ bookings' = bookings /\ req'[p] = IdleReq
               ELSE req'[p].op = "seats" /\ req'[p].selection = selection
            \/ ~SeatBookRead(p, u, 1, d, selection)]_vars

\* Train of two seats: u1 holds seat 1 for date 2, u2's selection of seats 1
\* and 2 for that date has just been rejected listing seat 1, and seat 2 is
\* still free.
C25_Witness ==
    /\ Len(bookings) = 1
    /\ bookings[1].user_id = "u1" /\ bookings[1].seats = {1}
    /\ bookings[1].booking_date = 2
    /\ resp.op = "seats" /\ resp.user = "u2" /\ resp.status = 400
    /\ resp.rows = <<1>>
    /\ SeatsTaken(1, 2) = {1}

\* The seats a booking row holds: its seats_booked while confirmed, none once
\* cancelled.
SeatsOf(row) == IF row.booking_status = "confirmed" THEN row.seats_booked ELSE 0

\* C26 (no double refund): a cancel that commits refunds no more seats than
\* its booking holds at that moment, so the refunds of a booking never add up
\* to more seats than it held, and a booking that is cancelled already is not
\* reported fully cancelled a second time.
C26_NoDoubleRefund ==
    [][\A p \in Procs :
         ( /\ req[p].op = "cancel" /\ req[p].pc = "c_write"
           /\ req'[p].op = "idle" /\ resp'.status = 200 )
         => /\ resp'.amount = req[p].seatsToCancel * req[p].fare
            /\ req[p].seatsToCancel <= SeatsOf(bookings[req[p].bookingId])]_vars

\* C27 (truthful booking receipt): when book answers 201, the booking it names
\* is, in the state its commit leaves, confirmed, owned by the caller and of
\* exactly the seats_booked and total_fare reported.
C27_TruthfulReceipt ==
    [][\A p \in Procs :
         ( /\ req[p].op = "book" /\ req[p].pc = "write"
           /\ req'[p].op = "idle" /\ resp'.status = 201 )
         => /\ resp'.booking_id \in 1..Len(bookings')
            /\ LET row == bookings'[resp'.booking_id]
               IN  /\ row.booking_status = "confirmed"
                   /\ row.user_id = req[p].user
                   /\ row.seats_booked = resp'.seats
                   /\ row.total_fare = resp'.amount]_vars

\* C28 (one confirmed booking per key): no user has two confirmed bookings for
\* one train, date and segment.
C28_OneConfirmedPerKey ==
    \A i, j \in BookingIds :
        ( /\ bookings[i].booking_status = "confirmed"
          /\ bookings[j].booking_status = "confirmed"
          /\ bookings[i].user_id = bookings[j].user_id
          /\ SameKey(bookings[i], bookings[j]) )
        => i = j

\* A user has cancelled a booking and booked the key again: a cancelled and a
\* confirmed booking of that user for the key.
C28_Witness ==
    \E i, j \in BookingIds :
        /\ bookings[i].booking_status = "cancelled"
        /\ bookings[j].booking_status = "confirmed"
        /\ bookings[i].user_id = bookings[j].user_id
        /\ SameKey(bookings[i], bookings[j])

\* C29 (cancelled bookings are frozen): no step changes the seats_booked or
\* the total_fare of a booking that is cancelled.
C29_CancelledFrozen ==
    [][\A i \in BookingIds :
         bookings[i].booking_status = "cancelled"
         => /\ bookings'[i].seats_booked = bookings[i].seats_booked
            /\ bookings'[i].total_fare = bookings[i].total_fare]_vars

\* C30 (deadlock freedom and completion): every book or cancel request that
\* has started comes to its end (no request waits for ever for a lock); the
\* step that ends it sends its one response and returns its connection with
\* the transaction ended by a commit or a rollback; and no other step sends a
\* response for a book or a cancel.
C30_Completion ==
    /\ \A p \in Procs :
         (req[p].op \in {"book", "cancel"}) ~> (req[p].op = "idle")
    /\ [][/\ \A p \in Procs :
              ( /\ req[p].op \in {"book", "cancel"}
                /\ req'[p].op = "idle" )
              => /\ resp'.op = req[p].op /\ resp'.user = req[p].user
                 /\ resp'.status # 0
          /\ \A p \in Procs : req'[p].op = "idle" => req'[p].pc = "idle"
          /\ resp'.op \in {"book", "cancel"}
              => \E p \in Procs :
                   /\ req'[p].op = "idle"
                   /\ \A q \in Procs \ {p} : req'[q] = req[q]]_vars

\* C31 (search agrees with admission): in every state and for every train,
\* date and segment, search lists the train exactly when the segment runs
\* forward on the train's route and the availability book computes for the key
\* is positive, and the available_seats it reports is that availability; and
\* when a book request evaluates its capacity guard, it passes exactly when
\* the segment is off the route or search lists the train in that state, with
\* the availability search reports.
C31_SearchAgreesWithAdmission ==
    [][/\ \A k \in SearchKeyInputs :
            LET t == k[1]  d == k[2]  f == k[3]  o == k[4]
                availableSeats == AvailableSeats(trains[t].total_seats, t, d, f, o)
            IN  /\ t \in SearchTrains(f, o, d)
                      <=> (ValidSegment(t, f, o) /\ ~(availableSeats <= 0))
                /\ SearchAvailableSeats(t, d, f, o) = availableSeats
       /\ \A p \in Procs :
            LET r == req[p]
            IN  ( /\ r.op = "book" /\ r.pc = "read"
                  /\ req'[p] # r )
                => /\ r.train_id \in SearchTrains(r.from_station_id, r.to_station_id,
                                                  r.booking_date)
                        <=> /\ ValidSegment(r.train_id, r.from_station_id,
                                            r.to_station_id)
                            /\ req'[p].pc = "write"
                   /\ req'[p].pc = "write"
                        => req'[p].availableSeats =
                             SearchAvailableSeats(r.train_id, r.booking_date,
                                                  r.from_station_id, r.to_station_id)
                   /\ req'[p].pc # "write"
                        => resp'.message = "No seats available"]_vars

\* Train 1 is full for date 2 and segment 1 -> 2, so search does not list it,
\* and a book request has just been turned away for want of seats.
C31_Witness ==
    /\ 1 \notin SearchTrains(1, 2, 2)
    /\ ValidSegment(1, 1, 2)
    /\ resp.op = "book" /\ resp.message = "No seats available"
====
